---- MODULE Spec2Model ----
(***************************************************************************)
(* Licensy: model of the database layer (bot/models/models.py) and of the  *)
(* commands that use it (bot/cogs/roles.py, bot/cogs/configuration.py),   *)
(* and of the bot-owner commands (bot/cogs/bot_owner_commands.py).         *)
(*                                                                         *)
(* Every coroutine is cut at the database operations it awaits: a step of  *)
(* a task is one database operation together with the synchronous code     *)
(* that follows it up to the next awaited operation.  Model.save() runs    *)
(* _pre_save, then the INSERT/UPDATE, then _post_save; none of the code    *)
(* opens a transaction, so a row written by a step stays written when a    *)
(* later step of the same coroutine raises.                                *)
(***************************************************************************)
EXTENDS Integers, Sequences, FiniteSets, TLC

\* ------------------------------------------------------------------ bounds
NumGuilds == 2
NumRoles == 3
MaxActivation == 2
MaxReminderRows == 5
MaxStoredLicenses == 2
NumFillerRoles == 18
NumSpareRoles == 3

\* ------------------------------------------------------- program constants
DefaultFirstActivation == 720
NumActivations == 5
KeyMinLength == 14
MaximumUsesLeft == 1000000
MaximumRoles == 20
MaxPrefixLength == 10
MaxBrandingLength == 50
MaxFormatLength == 100
MaxLanguageLength == 2
TimezoneMin == -12
TimezoneMax == 14
MinPermutationCount == 1000000
SmallIntMin == -32768
SmallIntMax == 32767

\* ------------------------------------------------------- input value sets
Tasks == {"t1", "t2"}
Guilds == 1..NumGuilds
RoleIds == 1..NumRoles
TierLevelInputs == {0, 1}
TierPowerInputs == {1, 2}
TierLevelRangeInputs == {0, 100, 101}
TierPowerRangeInputs == {-1, 0, 10}
ActivationValues == (-1)..MaxActivation
ActivationInputs == [1..NumActivations -> ActivationValues]
LicenseActivationInputs == {<<720, 0, 0, 0, 0>>, <<2, 1, 0, 0, 0>>}
KeyPool == {"AAAAAAAAAAAAAA", "BBBBBBBBBBBBBBB", "CCCCCCCCCCCCCCCC", "SHORT-KEY-13C"}
UsesInputs == {-1, 0, 1000000, 1000001}
RolePackets == 1..NumGuilds
LicenseKinds == {"License", "MultipleUseLicense", "RegeneratingLicense"}
Members == {1, 2}

\* The text channels of a guild; the bot may send messages to the sendable ones.
Channels == {7, 8, 9}
SendableChannels == {7, 8}

\* Roles that fill a role packet, and further roles of the packet's guild.
FillerRoles == (NumRoles + 1)..(NumRoles + NumFillerRoles)
SpareRoles == (NumRoles + NumFillerRoles + 1)..(NumRoles + NumFillerRoles + NumSpareRoles)

\* The roles the role-packet commands are invoked with.
PacketRoleInputs == {1} \cup {NumRoles + NumFillerRoles} \cup SpareRoles

\* The duration argument: omitted (None), or an integer.
DurationArgs ==
    {[given |-> FALSE, value |-> 0]} \cup {[given |-> TRUE, value |-> d] : d \in {-1, 0, 5}}

\* A license format is a sequence of characters: "X" and "A" are placeholders,
\* every other character stands for itself.
Repeated(c, n) == [i \in 1..n |-> c]

FormatInputs ==
    {<<>>,
     Repeated("A", 4),
     Repeated("X", 4) \o Repeated("-", MaxFormatLength - 4),
     Repeated("X", 4) \o Repeated("-", MaxFormatLength - 3)}

PrefixInputs == {"0123456789", "0123456789A"}

BrandingInputs == {"BBBBBBBBBBBBBBBBBBBBBBBBBBBBBBBBBBBBBBBBBBBBBBBBBB", "BBBBBBBBBBBBBBBBBBBBBBBBBBBBBBBBBBBBBBBBBBBBBBBBBBB"}

TimezoneInputs == {-13, -12, 14, 15}

LanguageInputs == {"de", "xx"}

\* Discord role ids are global snowflakes, each owned by one guild; the
\* discord.Role converter only resolves a role of the invoking guild.
RoleGuild(r) == IF r \in RoleIds THEN (r % NumGuilds) + 1 ELSE 1

VARIABLES
    roles,      \* table "roles": role id -> [guild, tier_level, tier_power]
    roleTask,   \* edit_role coroutines: task -> [pc, role, guild, tier_level, tier_power]
    reminders,  \* table "reminders_settings": row id -> <<first, ..., fifth activation>>
    raArgs,     \* the five activations a caller passes to a ReminderActivations save
    licenses,   \* per License model its table: key -> row
    regenTask,  \* regenerate() coroutines: task -> [pc, key, self, activations, newKey, newReminders, before]
    minted,     \* history: the pairs <<regenerated key, key minted for it>>
    packetRoles, \* table "packet_roles": the rows [role, role_packet, duration]
    guilds,     \* table "guilds": guild id -> the configuration fields of the row
    ctxGuild,   \* ctx.guild.id: the guild the configuration commands are invoked in
    guildChannels, \* table "guilds": guild id -> the channel fields of the row
    licensedMembers, \* table "licensed_members": the rows [member_id, license]
    licensedRoles,   \* table "licensed_roles": the rows [member_id, license, role]
    redeemTask, \* redemptions: task -> [pc, guild, member, key, roles, self, contended]
    extensions, \* bot.extensions: the names of the loaded extensions
    updateInProgress, \* bot.update_in_progress
    ownerTask,  \* update and update_done coroutines: task -> [pc, minutes]
    last        \* outcome of the operation that completed last (none while regenerate() runs)

vars ==
    <<roles, roleTask, reminders, raArgs, licenses, regenTask, minted, packetRoles,
      guilds, ctxGuild, guildChannels, licensedMembers, licensedRoles, redeemTask,
      extensions, updateInProgress, ownerTask, last>>

packetVars == <<packetRoles>>

guildVars == <<guilds, ctxGuild, guildChannels>>

redeemVars == <<licensedMembers, licensedRoles, redeemTask>>

ownerVars == <<extensions, updateInProgress, ownerTask>>

\* The state of the role-packet, the configuration and the bot-owner commands
\* and of the redemptions.
cogVars == <<packetVars, guildVars, redeemVars, ownerVars>>

licenseVars == <<licenses, regenTask, minted>>

roleVars == <<roles, roleTask>>

reminderVars == <<reminders, raArgs>>

NoOp == [op |-> "none", id |-> 0, args |-> <<>>, result |-> "none"]

Outcome(op, id, args, result) == [op |-> op, id |-> id, args |-> args, result |-> result]

\* =================================================================== Role
RoleRow(g, lvl, pw) == [guild |-> g, tier_level |-> lvl, tier_power |-> pw]

IdleRoleTask == [pc |-> "idle", role |-> 0, guild |-> 0, tier_level |-> 0, tier_power |-> 0]

RoleFieldsInRangeOffByOne(lvl, pw) == (0 <= lvl /\ lvl <= 100) /\ (0 <= pw /\ pw <= 10)

\* Role._pre_save, the range checks.
RoleFieldsInRange(lvl, pw) == (0 <= lvl /\ lvl <= 100) /\ (0 <= pw /\ pw <= 9)

TierDuplicateExistsNever(r, g, lvl, pw) == FALSE

TierDuplicateExistsAnyGuild(r, g, lvl, pw) ==
    \E o \in DOMAIN roles :
        /\ o # r
        /\ roles[o].tier_level = lvl
        /\ roles[o].tier_power = pw

\* Role._pre_save, the query Role.get(~Q(id=self.id), guild=..., tier_level=...,
\* tier_power=...).exists() evaluated on the table as it is now.
TierDuplicateExists(r, g, lvl, pw) ==
    \E o \in DOMAIN roles :
        /\ o # r
        /\ roles[o].guild = g
        /\ roles[o].tier_level = lvl
        /\ roles[o].tier_power = pw

\* edit_role, first database operation: get_or_create_easy's Role.get(id=role_id).
\* Found: the fields are assigned and role.save() runs _pre_save up to its
\* first awaited query.  Not found: the coroutine goes on to create the row.
EditRoleGet(t, r, lvl, pw) ==
    /\ roleTask[t].pc = "idle"
    /\ IF r \in DOMAIN roles
       THEN IF ~RoleFieldsInRange(lvl, pw)
            THEN /\ last' = Outcome("edit_role", r, <<lvl, pw>>, "FieldError")
                 /\ UNCHANGED roleTask
            ELSE /\ roleTask' = [roleTask EXCEPT ![t] =
                        [pc |-> IF lvl # 0 THEN "query" ELSE "write",
                         role |-> r, guild |-> roles[r].guild,
                         tier_level |-> lvl, tier_power |-> pw]]
                 /\ UNCHANGED last
       ELSE /\ roleTask' = [roleTask EXCEPT ![t] =
                   [pc |-> "create", role |-> r, guild |-> RoleGuild(r),
                    tier_level |-> lvl, tier_power |-> pw]]
            /\ UNCHANGED last
    /\ UNCHANGED <<roles, reminderVars, licenseVars, cogVars>>

\* get_or_create_easy, Role.create(guild=guild, id=role_id): the defaults
\* tier_level = 0, tier_power = 1 pass _pre_save without a query; the INSERT
\* fails on the primary key when another coroutine created the row meanwhile.
\* Then edit_role assigns the fields and role.save() runs _pre_save.
EditRoleCreate(t) ==
    LET r == roleTask[t].role
        lvl == roleTask[t].tier_level
        pw == roleTask[t].tier_power
    IN  /\ roleTask[t].pc = "create"
        /\ IF r \in DOMAIN roles
           THEN /\ last' = Outcome("edit_role", r, <<lvl, pw>>, "IntegrityError")
                /\ roleTask' = [roleTask EXCEPT ![t] = IdleRoleTask]
                /\ UNCHANGED roles
           ELSE /\ roles' = [o \in DOMAIN roles \cup {r} |->
                               IF o = r THEN RoleRow(roleTask[t].guild, 0, 1) ELSE roles[o]]
                /\ IF ~RoleFieldsInRange(lvl, pw)
                   THEN /\ last' = Outcome("edit_role", r, <<lvl, pw>>, "FieldError")
                        /\ roleTask' = [roleTask EXCEPT ![t] = IdleRoleTask]
                   ELSE /\ roleTask' = [roleTask EXCEPT ![t].pc =
                               IF lvl # 0 THEN "query" ELSE "write"]
                        /\ UNCHANGED last
        /\ UNCHANGED <<reminderVars, licenseVars, cogVars>>

\* Role._pre_save, the awaited duplicate query of a tiered role.
EditRoleQuery(t) ==
    LET r == roleTask[t].role
        lvl == roleTask[t].tier_level
        pw == roleTask[t].tier_power
    IN  /\ roleTask[t].pc = "query"
        /\ IF TierDuplicateExists(r, roleTask[t].guild, lvl, pw)
           THEN /\ last' = Outcome("edit_role", r, <<lvl, pw>>, "IntegrityError")
                /\ roleTask' = [roleTask EXCEPT ![t] = IdleRoleTask]
           ELSE /\ roleTask' = [roleTask EXCEPT ![t].pc = "write"]
                /\ UNCHANGED last
        /\ UNCHANGED <<roles, reminderVars, licenseVars, cogVars>>

\* role.save(), the UPDATE of the row with the fields of the in-memory object.
EditRoleWrite(t) ==
    LET r == roleTask[t].role
        lvl == roleTask[t].tier_level
        pw == roleTask[t].tier_power
    IN  /\ roleTask[t].pc = "write"
        /\ roles' = [roles EXCEPT ![r] = RoleRow(roleTask[t].guild, lvl, pw)]
        /\ last' = Outcome("edit_role", r, <<lvl, pw>>, "ok")
        /\ roleTask' = [roleTask EXCEPT ![t] = IdleRoleTask]
        /\ UNCHANGED <<reminderVars, licenseVars, cogVars>>

EditRoleStep(t) ==
    \/ \E r \in RoleIds, lvl \in TierLevelInputs, pw \in TierPowerInputs :
           EditRoleGet(t, r, lvl, pw)
    \/ EditRoleCreate(t)
    \/ EditRoleQuery(t)
    \/ EditRoleWrite(t)

\* edit_role with tier values at and beyond the ends of their ranges.
EditRoleRangeStep(t) ==
    \/ \E r \in RoleIds, lvl \in TierLevelRangeInputs, pw \in TierPowerRangeInputs :
           EditRoleGet(t, r, lvl, pw)
    \/ EditRoleCreate(t)
    \/ EditRoleQuery(t)
    \/ EditRoleWrite(t)

\* No other edit_role coroutine is between two of its database operations.
RoleTaskAlone(t) == \A u \in Tasks \ {t} : roleTask[u].pc = "idle"

\* ==================================================== ReminderActivations
\* The field defaults of a row created without arguments.
DefaultActivations == [i \in 1..NumActivations |-> IF i = 1 THEN DefaultFirstActivation ELSE 0]

\* Guild.create makes one row per guild; guild g owns row g.
GuildReminders(g) == g

\* _check_valid_first_activation: raises unless self[0] > 0.
ValidFirstActivation(a) == a[1] > 0

\* _check_activation_ranges: raises on a negative activation.
ActivationRangesOk(a) == \A i \in 1..NumActivations : ~(a[i] < 0)

ValidOrderActivationsFirstPairOnly(a) == ~(a[1] < a[2])

\* _check_valid_order_activations: raises when a pair of neighbours
\* zip(activations, activations[1:]) has pair[0] < pair[1].
ValidOrderActivations(a) == \A i \in 1..(NumActivations - 1) : ~(a[i] < a[i + 1])

\* ReminderActivations._post_save: the three checks, run after the row is written.
PostSaveResult(a) ==
    IF ValidFirstActivation(a) /\ ActivationRangesOk(a) /\ ValidOrderActivations(a)
    THEN "ok"
    ELSE "FieldError"

\* edit_default_reminders: loads the guild's row, assigns the five fields and
\* saves; save() issues the UPDATE and then runs _post_save, whose FieldError
\* the command turns into a failure message.
EditDefaultReminders(g) ==
    LET row == GuildReminders(g)
    IN  /\ reminders' = [reminders EXCEPT ![row] = raArgs]
        /\ last' = Outcome("edit_default_reminders", row, raArgs, PostSaveResult(raArgs))
        /\ UNCHANGED <<roleVars, raArgs, licenseVars, cogVars>>

\* ReminderActivations.create_easy: create() issues the INSERT and then runs
\* _post_save.
CreateEasy ==
    /\ Len(reminders) < MaxReminderRows
    /\ reminders' = Append(reminders, raArgs)
    /\ last' = Outcome("create_easy", Len(reminders) + 1, raArgs, PostSaveResult(raArgs))
    /\ UNCHANGED <<roleVars, raArgs, licenseVars, cogVars>>

\* ================================================================ License
\* A role packet belongs to one guild; packet p is the packet of guild p.
PacketGuild(p) == p

\* A row of a License table; uses_left is a column of MultipleUseLicense and
\* role_packet one of RegeneratingLicense (0 where the model has no such column).
LicenseRow(g, ra, inactive, uses, p) ==
    [guild |-> g, reminder_activations |-> ra, inactive |-> inactive,
     uses_left |-> uses, role_packet |-> p]

\* The ReminderActivations rows some guild or license refers to.
OwnedReminders ==
    {GuildReminders(g) : g \in Guilds} \cup
    UNION {{licenses[kind][k].reminder_activations : k \in DOMAIN licenses[kind]} :
              kind \in LicenseKinds}

LicensePreSaveKeyOffByOne(kind, k, uses) ==
    IF kind = "MultipleUseLicense" /\ uses < 0 THEN "FieldError"
    ELSE IF kind = "MultipleUseLicense" /\ uses > MaximumUsesLeft THEN "FieldError"
    ELSE IF Len(k) < KeyMinLength - 1 THEN "FieldError"
    ELSE "ok"

\* License._pre_save with MultipleUseLicense._pre_save before it: the
\* exception raised, or "ok".
LicensePreSave(kind, k, uses) ==
    IF kind = "MultipleUseLicense" /\ uses < 0 THEN "FieldError"
    ELSE IF kind = "MultipleUseLicense" /\ uses > MaximumUsesLeft THEN "FieldError"
    ELSE IF Len(k) < KeyMinLength THEN "FieldError"
    ELSE "ok"

Insert(table, k, row) == [o \in DOMAIN table \cup {k} |-> IF o = k THEN row ELSE table[o]]

\* uses_left = SmallIntField(...): the column is a SMALLINT.  What a write of v
\* to it does is the database's: a value of the type is stored; a value
\* outside it is refused with an error by a backend that enforces the column
\* type, and stored as it is by one that does not.
SmallIntWrite(v) ==
    IF SmallIntMin <= v /\ v <= SmallIntMax
    THEN {[error |-> FALSE, value |-> v]}
    ELSE {[error |-> TRUE, value |-> v], [error |-> FALSE, value |-> v]}

\* License.create: without reminder_activations (ra = 0) a row of defaults is
\* created first; then Model.create saves the license: _pre_save, then the
\* INSERT, which fails on an existing primary key.
LicenseCreate(kind, k, g, p, uses, ra) ==
    \E column \in SmallIntWrite(uses) :
        LET newReminders == IF ra = 0 THEN Len(reminders) + 1 ELSE ra
            checked == LicensePreSave(kind, k, uses)
            result == IF checked # "ok" THEN checked
                      ELSE IF k \in DOMAIN licenses[kind] THEN "IntegrityError"
                      ELSE IF column.error THEN "OperationalError"
                      ELSE "ok"
        IN  /\ IF ra = 0
               THEN /\ Len(reminders) < MaxReminderRows
                    /\ reminders' = Append(reminders, DefaultActivations)
               ELSE /\ ra \in DOMAIN reminders \ OwnedReminders
                    /\ PostSaveResult(reminders[ra]) = "ok"
                    /\ UNCHANGED reminders
            /\ licenses' = IF result = "ok"
                           THEN [licenses EXCEPT ![kind] =
                                    Insert(@, k, LicenseRow(g, newReminders, FALSE, column.value, p))]
                           ELSE licenses
            /\ last' = Outcome("license_create", k, <<kind, uses>>, result)
            /\ UNCHANGED <<roleVars, raArgs, regenTask, minted, cogVars>>

\* A stored license is loaded, the caller assigns inactive and uses_left, and
\* save() runs _pre_save and then the UPDATE of the row.
LicenseSave(kind, k, inactive, uses) ==
    \E column \in SmallIntWrite(uses) :
        LET checked == LicensePreSave(kind, k, uses)
            result == IF checked # "ok" THEN checked
                      ELSE IF column.error THEN "OperationalError"
                      ELSE "ok"
        IN  /\ k \in DOMAIN licenses[kind]
            /\ licenses' = IF result = "ok"
                           THEN [licenses EXCEPT ![kind][k].inactive = inactive,
                                                 ![kind][k].uses_left = column.value]
                           ELSE licenses
            /\ last' = Outcome("license_save", k, <<kind, uses, inactive>>, result)
            /\ UNCHANGED <<roleVars, reminderVars, regenTask, minted, cogVars>>

\* ---------------------------------------------- RegeneratingLicense.regenerate
Regen == "RegeneratingLicense"

IdleRegenTask ==
    [pc |-> "idle", key |-> "", self |-> LicenseRow(0, 0, FALSE, 0, 0),
     activations |-> <<>>, newKey |-> "", newReminders |-> 0, before |-> {}]

\* LicenseFormatter.generate_single(format, branding): some string.
GenerateSingle == KeyPool

ClonedActivationsDefaults(ra) == DefaultActivations

\* reminder_activations.get_all_activations(): the five fields of the row.
ClonedActivations(ra) == reminders[ra]

\* RegeneratingLicense(key=new_key, guild=guild,
\* reminder_activations=new_reminder_activations, role_packet=role_packet).
RegeneratedRow(self, ra) == LicenseRow(self.guild, ra, FALSE, 0, self.role_packet)

RegenOutcome(t, result) ==
    Outcome("regenerate", regenTask[t].key,
            <<regenTask[t].newKey, regenTask[t].before, regenTask[t].self.inactive>>, result)

\* regenerate() up to its first write: the license and its relations are
\* loaded and the new key is generated.
RegenBegin(t, k, newKey) ==
    /\ regenTask[t].pc = "idle"
    /\ k \in DOMAIN licenses[Regen]
    /\ newKey \in GenerateSingle
    /\ regenTask' = [regenTask EXCEPT ![t] =
           [pc |-> "clone", key |-> k, self |-> licenses[Regen][k],
            activations |-> ClonedActivations(licenses[Regen][k].reminder_activations),
            newKey |-> newKey, newReminders |-> 0, before |-> DOMAIN licenses[Regen]]]
    /\ last' = NoOp
    /\ UNCHANGED <<roleVars, reminderVars, licenses, minted, cogVars>>

\* await reminder_activations.create_easy(...): INSERT, then _post_save.
RegenClone(t) ==
    /\ regenTask[t].pc = "clone"
    /\ Len(reminders) < MaxReminderRows
    /\ reminders' = Append(reminders, regenTask[t].activations)
    /\ IF PostSaveResult(regenTask[t].activations) = "ok"
       THEN /\ regenTask' = [regenTask EXCEPT ![t].pc = "insert",
                                              ![t].newReminders = Len(reminders) + 1]
            /\ UNCHANGED last
       ELSE /\ regenTask' = [regenTask EXCEPT ![t] = IdleRegenTask]
            /\ last' = RegenOutcome(t, "FieldError")
    /\ UNCHANGED <<roleVars, raArgs, licenses, minted, cogVars>>

\* await new_license.save(): _pre_save, then the INSERT of the new license.
RegenInsert(t) ==
    LET newKey == regenTask[t].newKey
        checked == LicensePreSave(Regen, newKey, 0)
        result == IF checked # "ok" THEN checked
                  ELSE IF newKey \in DOMAIN licenses[Regen] THEN "IntegrityError"
                  ELSE "ok"
    IN  /\ regenTask[t].pc = "insert"
        /\ IF result = "ok"
           THEN /\ licenses' = [licenses EXCEPT ![Regen] =
                       Insert(@, newKey, RegeneratedRow(regenTask[t].self, regenTask[t].newReminders))]
                /\ minted' = minted \cup {<<regenTask[t].key, newKey>>}
                /\ regenTask' = [regenTask EXCEPT ![t].pc = "deactivate"]
                /\ UNCHANGED last
           ELSE /\ regenTask' = [regenTask EXCEPT ![t] = IdleRegenTask]
                /\ last' = RegenOutcome(t, result)
                /\ UNCHANGED <<licenses, minted>>
        /\ UNCHANGED <<roleVars, reminderVars, cogVars>>

\* self.inactive = True; await self.save(): the UPDATE of the regenerated
\* license with the fields of the in-memory object.
RegenDeactivate(t) ==
    /\ regenTask[t].pc = "deactivate"
    /\ licenses' = [licenses EXCEPT ![Regen][regenTask[t].key] =
           [regenTask[t].self EXCEPT !.inactive = TRUE]]
    /\ regenTask' = [regenTask EXCEPT ![t] = IdleRegenTask]
    /\ last' = RegenOutcome(t, "ok")
    /\ UNCHANGED <<roleVars, reminderVars, minted, cogVars>>

RegenerateStep(t) ==
    \/ \E k \in KeyPool, newKey \in KeyPool : RegenBegin(t, k, newKey)
    \/ RegenClone(t)
    \/ RegenInsert(t)
    \/ RegenDeactivate(t)

\* No regenerate() coroutine other than t is between two of its awaits.
RegenTaskAlone(t) == \A u \in Tasks \ {t} : regenTask[u].pc = "idle"

NoRegenTask == \A u \in Tasks : regenTask[u].pc = "idle"

\* RegeneratingLicense.create without reminder_activations.
RegenLicenseCreate ==
    \E k \in KeyPool, p \in RolePackets : LicenseCreate(Regen, k, PacketGuild(p), p, 0, 0)

\* A RegeneratingLicense created with a ReminderActivations row of the caller's own.
RegenLicenseOwnReminders ==
    \/ CreateEasy
    \/ \E k \in KeyPool, p \in RolePackets, ra \in 1..MaxReminderRows :
           LicenseCreate(Regen, k, PacketGuild(p), p, 0, ra)

\* The uses_left a caller passes: a column of MultipleUseLicense only.
UsesOf(kind) == IF kind = "MultipleUseLicense" THEN UsesInputs ELSE {0}

NumStoredLicenses ==
    Cardinality(DOMAIN licenses["License"]) + Cardinality(DOMAIN licenses["MultipleUseLicense"])

\* create() and save() of License and MultipleUseLicense.
LicenseStoreCall ==
    \/ \E kind \in LicenseKinds \ {Regen}, k \in KeyPool, g \in Guilds, uses \in UsesInputs :
           /\ NumStoredLicenses < MaxStoredLicenses
           /\ uses \in UsesOf(kind)
           /\ LicenseCreate(kind, k, g, 0, uses, 0)
    \/ \E kind \in LicenseKinds \ {Regen}, k \in KeyPool, inactive \in BOOLEAN, uses \in UsesInputs :
           uses \in UsesOf(kind) /\ LicenseSave(kind, k, inactive, uses)

\* ================================================== RolePacket, PacketRole
\* The "role_packets" table: one packet per guild, created by
\* create_role_packet with a default role duration of 10 minutes.
RolePacketRow(p) == [guild |-> PacketGuild(p), default_role_duration |-> 10]

\* self.role_packet.packet_roles.all(): the rows of packet p.
PacketRolesOf(p) == {row \in packetRoles : row.role_packet = p}

PacketRolePreSaveCountOffByOne(p, roleGuild, duration) ==
    IF duration < 0 THEN "FieldError"
    ELSE IF Cardinality(PacketRolesOf(p)) > MaximumRoles THEN "IntegrityError"
    ELSE IF roleGuild # RolePacketRow(p).guild THEN "IntegrityError"
    ELSE "ok"

PacketRolePreSaveNoGuildCheck(p, roleGuild, duration) ==
    IF duration < 0 THEN "FieldError"
    ELSE IF Cardinality(PacketRolesOf(p)) + 1 > MaximumRoles THEN "IntegrityError"
    ELSE "ok"

\* PacketRole._pre_save of a row whose role belongs to guild roleGuild: the
\* exception raised, or "ok".
PacketRolePreSave(p, roleGuild, duration) ==
    IF duration < 0 THEN "FieldError"
    ELSE IF Cardinality(PacketRolesOf(p)) + 1 > MaximumRoles THEN "IntegrityError"
    ELSE IF roleGuild # RolePacketRow(p).guild THEN "IntegrityError"
    ELSE "ok"

\* PacketRole.create: duration = kwargs.pop("duration", None), and
\* "if not duration" puts the packet's default in its place.
CreateDuration(p, dur) ==
    IF ~dur.given \/ dur.value = 0 THEN RolePacketRow(p).default_role_duration ELSE dur.value

\* PacketRole.create(role_packet=p, duration=dur, role=r) on the table as it
\* is: _pre_save, then the INSERT, which fails on unique_together
\* (role, role_packet).
PacketRoleCreateResult(p, r, roleGuild, dur) ==
    LET checked == PacketRolePreSave(p, roleGuild, CreateDuration(p, dur))
    IN  IF checked # "ok" THEN checked
        ELSE IF \E row \in PacketRolesOf(p) : row.role = r THEN "IntegrityError"
        ELSE "ok"

PacketRoleInserted(p, r, dur) ==
    packetRoles \cup {[role |-> r, role_packet |-> p, duration |-> CreateDuration(p, dur)]}

\* Role.get_or_create_easy(guild_id, role_id): the "roles" table after it.
RolesAfterGetOrCreate(g, r) ==
    IF r \in DOMAIN roles THEN roles
    ELSE [o \in DOMAIN roles \cup {r} |-> IF o = r THEN RoleRow(g, 0, 1) ELSE roles[o]]

PacketOutcome(op, p, r, dur, result) ==
    Outcome(op, r, <<p, dur, Cardinality(PacketRolesOf(p))>>, result)

\* PacketRole.create called with a stored role and a stored packet.
PacketRoleCreate(p, r, dur) ==
    LET result == IF r \in DOMAIN roles
                  THEN PacketRoleCreateResult(p, r, roles[r].guild, dur)
                  ELSE "DoesNotExist"
    IN  /\ r \in DOMAIN roles
        /\ packetRoles' = IF result = "ok" THEN PacketRoleInserted(p, r, dur) ELSE packetRoles
        /\ last' = PacketOutcome("packet_role_create", p, r, dur, result)
        /\ UNCHANGED <<roleVars, reminderVars, licenseVars, guildVars, redeemVars, ownerVars>>

\* add_packet_role in guild g, with the name of g's packet p and a role r of
\* g: the role row is fetched or created, an omitted duration is replaced by
\* the packet's default, and PacketRole.create is called with it.
AddPacketRole(g, p, r, dur) ==
    LET passed == IF dur.given THEN dur
                  ELSE [given |-> TRUE, value |-> RolePacketRow(p).default_role_duration]
        rolesNow == RolesAfterGetOrCreate(g, r)
        result == PacketRoleCreateResult(p, r, rolesNow[r].guild, passed)
    IN  /\ RolePacketRow(p).guild = g
        /\ RoleGuild(r) = g
        /\ dur.value >= 0
        /\ roles' = rolesNow
        /\ packetRoles' = IF result = "ok" THEN PacketRoleInserted(p, r, passed) ELSE packetRoles
        /\ last' = PacketOutcome("add_packet_role", p, r, dur, result)
        /\ UNCHANGED <<roleTask, reminderVars, licenseVars, guildVars, redeemVars, ownerVars>>

\* remove_packet_role: the role row is fetched or created, and the rows of
\* the packet with that role are deleted (none when there is none).
RemovePacketRole(g, p, r) ==
    /\ RolePacketRow(p).guild = g
    /\ RoleGuild(r) = g
    /\ roles' = RolesAfterGetOrCreate(g, r)
    /\ packetRoles' = {row \in packetRoles : ~(row.role_packet = p /\ row.role = r)}
    /\ last' = PacketOutcome("remove_packet_role", p, r, [given |-> FALSE, value |-> 0], "ok")
    /\ UNCHANGED <<roleTask, reminderVars, licenseVars, guildVars, redeemVars, ownerVars>>

\* ================================================================== Guild
\* The configuration fields of a "guilds" row.
GuildRow(prefix, format, branding, timezone, language) ==
    [custom_prefix |-> prefix, custom_license_format |-> format,
     license_branding |-> branding, timezone |-> timezone, language |-> language]

\* The field defaults.
DefaultGuildRow == GuildRow("", <<>>, "", 0, "en")

\* i18n_handler.LANGUAGES.
Languages == {"en", "de"}

\* The number of characters a placeholder stands for.
ClassSize(c) == IF c = "X" THEN 36 ELSE IF c = "A" THEN 10 ELSE 1

RECURSIVE GetFormatPermutations(_)
\* LicenseFormatter.get_format_permutations.
GetFormatPermutations(format) ==
    IF format = <<>> THEN 1
    ELSE ClassSize(Head(format)) * GetFormatPermutations(Tail(format))

\* LicenseFormatter.is_secure.
IsSecure(format) == GetFormatPermutations(format) >= MinPermutationCount

GuildPreSaveNoSecureCheck(row) ==
    IF Len(row.custom_prefix) > MaxPrefixLength THEN "FieldError"
    ELSE IF Len(row.custom_license_format) > MaxFormatLength THEN "FieldError"
    ELSE IF Len(row.license_branding) > MaxBrandingLength THEN "FieldError"
    ELSE IF ~(TimezoneMin <= row.timezone /\ row.timezone <= TimezoneMax) THEN "FieldError"
    ELSE IF row.language \notin Languages \/ Len(row.language) > MaxLanguageLength THEN "FieldError"
    ELSE "ok"

\* Guild._pre_save: the exception raised, or "ok".  (The inputs are lowercase,
\* so the islower test of the language never raises.)
GuildPreSave(row) ==
    IF Len(row.custom_prefix) > MaxPrefixLength THEN "FieldError"
    ELSE IF Len(row.custom_license_format) > MaxFormatLength THEN "FieldError"
    ELSE IF row.custom_license_format # <<>> /\ ~IsSecure(row.custom_license_format) THEN "FieldError"
    ELSE IF Len(row.license_branding) > MaxBrandingLength THEN "FieldError"
    ELSE IF ~(TimezoneMin <= row.timezone /\ row.timezone <= TimezoneMax) THEN "FieldError"
    ELSE IF row.language \notin Languages \/ Len(row.language) > MaxLanguageLength THEN "FieldError"
    ELSE "ok"

\* custom_license_format = CharField(max_length=100): the column is a
\* VARCHAR(100), and QuerySet.update() writes to it without Guild._pre_save.
\* A longer value is refused with an error by a backend that enforces the
\* length, and stored as it is by one that does not.
FormatColumnWrite(format) ==
    IF Len(format) <= MaxFormatLength
    THEN {[error |-> FALSE, value |-> format]}
    ELSE {[error |-> TRUE, value |-> format], [error |-> FALSE, value |-> format]}

\* The outcome of a configuration operation on guild g: the row it was to
\* leave and the row it found.
GuildOutcome(op, g, attempted, result) == Outcome(op, g, <<attempted, guilds[g]>>, result)

\* A stored guild is loaded, one field is assigned, and save() runs _pre_save
\* and then the UPDATE of the row.
GuildSave(g, row) ==
    LET result == GuildPreSave(row)
    IN  /\ guilds' = IF result = "ok" THEN [guilds EXCEPT ![g] = row] ELSE guilds
        /\ last' = GuildOutcome("guild_save", g, row, result)
        /\ UNCHANGED <<roleVars, reminderVars, licenseVars, packetVars, ctxGuild, guildChannels, redeemVars, ownerVars>>

\* ctx.prefix: the prefix the command was invoked with, the guild's own when
\* it has one.
CtxPrefix(g) == IF guilds[g].custom_prefix # "" THEN guilds[g].custom_prefix ELSE "!"

\* The prefix command.
PrefixCommand(g, prefix) ==
    LET row == [guilds[g] EXCEPT !.custom_prefix = prefix]
        result == IF CtxPrefix(g) = prefix THEN "failure"
                  ELSE IF Len(prefix) > MaxPrefixLength THEN "failure"
                  ELSE "ok"
    IN  /\ guilds' = IF result = "ok" THEN [guilds EXCEPT ![g] = row] ELSE guilds
        /\ last' = GuildOutcome("prefix", g, row, result)
        /\ UNCHANGED <<roleVars, reminderVars, licenseVars, packetVars, ctxGuild, guildChannels, redeemVars, ownerVars>>

\* The license_format command: is_secure, then
\* Guild.get(id=ctx.guild.id).update(custom_license_format=license_format).
LicenseFormatCommand(g, format) ==
    \E column \in FormatColumnWrite(format) :
        LET row == [guilds[g] EXCEPT !.custom_license_format = format]
            result == IF ~IsSecure(format) THEN "failure"
                      ELSE IF column.error THEN "OperationalError"
                      ELSE "ok"
        IN  /\ guilds' = IF result = "ok"
                         THEN [guilds EXCEPT ![g].custom_license_format = column.value]
                         ELSE guilds
            /\ last' = GuildOutcome("license_format", g, row, result)
            /\ UNCHANGED <<roleVars, reminderVars, licenseVars, packetVars, ctxGuild, guildChannels, redeemVars, ownerVars>>

\* The license_branding command.
LicenseBrandingCommand(g, branding) ==
    LET row == [guilds[g] EXCEPT !.license_branding = branding]
        result == IF Len(branding) > MaxBrandingLength THEN "failure" ELSE "ok"
    IN  /\ guilds' = IF result = "ok" THEN [guilds EXCEPT ![g] = row] ELSE guilds
        /\ last' = GuildOutcome("license_branding", g, row, result)
        /\ UNCHANGED <<roleVars, reminderVars, licenseVars, packetVars, ctxGuild, guildChannels, redeemVars, ownerVars>>

\* The timezone command.
TimezoneCommand(g, timezone) ==
    LET row == [guilds[g] EXCEPT !.timezone = timezone]
        result == IF ~(TimezoneMin <= timezone /\ timezone <= TimezoneMax) THEN "failure" ELSE "ok"
    IN  /\ guilds' = IF result = "ok" THEN [guilds EXCEPT ![g] = row] ELSE guilds
        /\ last' = GuildOutcome("timezone", g, row, result)
        /\ UNCHANGED <<roleVars, reminderVars, licenseVars, packetVars, ctxGuild, guildChannels, redeemVars, ownerVars>>

\* The language command (its argument lowercased; the inputs are lowercase).
LanguageCommand(g, language) ==
    LET row == [guilds[g] EXCEPT !.language = language]
        result == IF language \notin Languages THEN "failure" ELSE "ok"
    IN  /\ guilds' = IF result = "ok" THEN [guilds EXCEPT ![g] = row] ELSE guilds
        /\ last' = GuildOutcome("language", g, row, result)
        /\ UNCHANGED <<roleVars, reminderVars, licenseVars, packetVars, ctxGuild, guildChannels, redeemVars, ownerVars>>

\* The rows a caller of Guild.save() may have made of the stored row by
\* assigning one field.
GuildSaveInputs(g) ==
    {[guilds[g] EXCEPT !.custom_prefix = v] : v \in PrefixInputs} \cup
    {[guilds[g] EXCEPT !.custom_license_format = v] : v \in FormatInputs} \cup
    {[guilds[g] EXCEPT !.license_branding = v] : v \in BrandingInputs} \cup
    {[guilds[g] EXCEPT !.timezone = v] : v \in TimezoneInputs} \cup
    {[guilds[g] EXCEPT !.language = v] : v \in LanguageInputs}

\* ============================================================= redemption
\* The redemption flow is not part of the sources under bot/: it is modelled
\* from sections 4.2 to 4.4 and 5 of the specification, on the tables that
\* models.py declares for it (LicensedMember, LicensedRole).  Durations and
\* expiration times are left out; they do not decide which roles are held.

\* Two licenses that can be used more than once, with the uses they start with.
InitialUses == [k \in {"AAAAAAAAAAAAAA", "BBBBBBBBBBBBBBB"} |-> IF k = "AAAAAAAAAAAAAA" THEN 1 ELSE 2]

\* The roles redemptions grant: three powers of tier level 1 and an untiered role.
RedeemRoles == (NumRoles + 1)..(NumRoles + 4)

RedeemRoleRow(r) ==
    IF r - NumRoles <= 3 THEN RoleRow(RoleGuild(r), 1, r - NumRoles) ELSE RoleRow(RoleGuild(r), 0, 1)

\* The explicit role lists of a redemption: one role, or two different roles.
RoleLists ==
    {<<r>> : r \in RedeemRoles} \cup
    {<<r1, r2>> : <<r1, r2>> \in {pair \in RedeemRoles \X RedeemRoles : pair[1] # pair[2]}}

IdleRedeemTask ==
    [pc |-> "idle", guild |-> 0, member |-> 0, key |-> "", roles |-> <<>>,
     self |-> LicenseRow(0, 0, FALSE, 0, 0), contended |-> FALSE]

\* The roles member m holds.
HeldRoles(held, m) == {row.role : row \in {x \in held : x.member = m}}

\* Section 4.2: the held rows of m whose role shares the tier level of r.
TierConflicts(held, m, r) ==
    {row \in held : row.member = m /\ roles[row.role].tier_level = roles[r].tier_level}

GrantRoleNoTierCheck(held, m, k, r) ==
    IF r \in HeldRoles(held, m) THEN held
    ELSE held \cup {[member |-> m, license |-> k, role |-> r]}

\* Section 4.3, one role of a redemption: a role already held is only merged
\* in duration; a tiered role goes through the tier resolver, which suppresses
\* the grant under a held role of higher power and revokes the held roles of
\* lower power; an untiered role is granted.
GrantRole(held, m, k, r) ==
    IF r \in HeldRoles(held, m) THEN held
    ELSE IF roles[r].tier_level > 0
         THEN LET conflicts == TierConflicts(held, m, r)
              IN  IF \E row \in conflicts : roles[row.role].tier_power >= roles[r].tier_power
                  THEN held
                  ELSE (held \ conflicts) \cup {[member |-> m, license |-> k, role |-> r]}
         ELSE held \cup {[member |-> m, license |-> k, role |-> r]}

RECURSIVE GrantRoles(_, _, _, _)
\* Section 4.3: the roles of a redemption, one after the other.
GrantRoles(held, m, k, rs) ==
    IF rs = <<>> THEN held
    ELSE GrantRoles(GrantRole(held, m, k, Head(rs)), m, k, Tail(rs))

RedeemOutcome(m, k, rs, contended, result) ==
    Outcome("redeem", k, <<m, rs, HeldRoles(licensedRoles, m), contended>>, result)

\* The entitlement granter for member m and a validated license k.
GrantEntitlements(m, k, rs) ==
    /\ licensedMembers' = licensedMembers \cup {[member |-> m, license |-> k]}
    /\ licensedRoles' = GrantRoles(licensedRoles, m, k, rs)
    /\ last' = RedeemOutcome(m, k, rs, FALSE, "ok")
    /\ UNCHANGED <<roleVars, reminderVars, licenseVars, packetVars, guildVars, redeemTask, ownerVars>>

MultiUse == "MultipleUseLicense"

KeyLockedNever(t, k) == FALSE

\* Section 5: the critical section of license k is held by a task other than t.
KeyLocked(t, k) ==
    \E u \in Tasks \ {t} : redeemTask[u].key = k /\ redeemTask[u].pc \in {"consume", "grant"}

\* Another redemption of license k has arrived and has not consumed a use yet.
Contended(t, k) ==
    \E u \in Tasks \ {t} : redeemTask[u].key = k /\ redeemTask[u].pc \in {"enter", "consume"}

\* redeem(guild_id, member_id, license_key) arrives.
RedeemBegin(t, g, m, k, rs) ==
    /\ redeemTask[t].pc = "idle"
    /\ \A u \in Tasks \ {t} : ~(redeemTask[u].member = m /\ redeemTask[u].key = k)
    /\ redeemTask' = [redeemTask EXCEPT ![t] =
           [pc |-> "enter", guild |-> g, member |-> m, key |-> k, roles |-> rs,
            self |-> LicenseRow(0, 0, FALSE, 0, 0), contended |-> Contended(t, k)]]
    /\ last' = NoOp
    /\ UNCHANGED <<roleVars, reminderVars, licenseVars, packetVars, guildVars,
                   licensedMembers, licensedRoles, ownerVars>>

\* The critical section is entered when it is free; the license is read
\* inside it and validated: an unknown or inactive license, one of another
\* guild and one without uses left is rejected before any side effect.
RedeemEnter(t) ==
    LET k == redeemTask[t].key
        valid == /\ k \in DOMAIN licenses[MultiUse]
                 /\ ~licenses[MultiUse][k].inactive
                 /\ licenses[MultiUse][k].guild = redeemTask[t].guild
                 /\ licenses[MultiUse][k].uses_left > 0
                 /\ [member |-> redeemTask[t].member, license |-> k] \notin licensedMembers
    IN  /\ redeemTask[t].pc = "enter"
        /\ ~KeyLocked(t, k)
        /\ IF valid
           THEN /\ redeemTask' = [redeemTask EXCEPT ![t].pc = "consume",
                                                    ![t].self = licenses[MultiUse][k]]
                /\ UNCHANGED last
           ELSE /\ redeemTask' = [redeemTask EXCEPT ![t] = IdleRedeemTask]
                /\ last' = RedeemOutcome(redeemTask[t].member, k, redeemTask[t].roles,
                                         redeemTask[t].contended, "StateError")
        /\ UNCHANGED <<roleVars, reminderVars, licenseVars, packetVars, guildVars,
                       licensedMembers, licensedRoles, ownerVars>>

\* Section 4.4: one use is consumed; the license is inactive once no use is
\* left.  The row is saved through MultipleUseLicense._pre_save.
RedeemConsume(t) ==
    LET k == redeemTask[t].key
        uses == redeemTask[t].self.uses_left - 1
        row == [redeemTask[t].self EXCEPT !.uses_left = uses, !.inactive = (uses = 0)]
    IN  /\ redeemTask[t].pc = "consume"
        /\ LicensePreSave(MultiUse, k, uses) = "ok"
        /\ licenses' = [licenses EXCEPT ![MultiUse][k] = row]
        /\ licensedMembers' = licensedMembers \cup {[member |-> redeemTask[t].member, license |-> k]}
        /\ redeemTask' = [redeemTask EXCEPT ![t].pc = "grant"]
        /\ UNCHANGED <<roleVars, reminderVars, regenTask, minted, packetVars, guildVars,
                       licensedRoles, last, ownerVars>>

\* Section 4.3: the roles are granted and the critical section is left.
RedeemGrant(t) ==
    LET m == redeemTask[t].member
        k == redeemTask[t].key
    IN  /\ redeemTask[t].pc = "grant"
        /\ licensedRoles' = GrantRoles(licensedRoles, m, k, redeemTask[t].roles)
        /\ redeemTask' = [redeemTask EXCEPT ![t] = IdleRedeemTask]
        /\ last' = RedeemOutcome(m, k, redeemTask[t].roles, redeemTask[t].contended, "ok")
        /\ UNCHANGED <<roleVars, reminderVars, licenseVars, packetVars, guildVars,
                       licensedMembers, ownerVars>>

RedeemStep(t) ==
    \/ \E m \in Members, k \in DOMAIN InitialUses :
           RedeemBegin(t, ctxGuild, m, k, <<NumRoles + 1>>)
    \/ RedeemEnter(t)
    \/ RedeemConsume(t)
    \/ RedeemGrant(t)

\* create() of the three License models with the field defaults.
LicenseKeyCreate ==
    \E kind \in LicenseKinds, k \in KeyPool, p \in RolePackets :
        LicenseCreate(kind, k, PacketGuild(p),
                      IF kind = Regen THEN p ELSE 0,
                      IF kind = "MultipleUseLicense" THEN 1 ELSE 0, 0)

\* A stored PacketRole is loaded, its duration is assigned, and save() runs
\* _pre_save, whose count() is taken on the table that holds the row, and
\* then the UPDATE of the row.
PacketRoleSave(p, r, duration) ==
    LET result == PacketRolePreSave(p, roles[r].guild, duration)
    IN  /\ r \in DOMAIN roles
        /\ \E row \in PacketRolesOf(p) : row.role = r
        /\ packetRoles' =
              IF result = "ok"
              THEN {IF row.role_packet = p /\ row.role = r
                    THEN [row EXCEPT !.duration = duration] ELSE row : row \in packetRoles}
              ELSE packetRoles
        /\ last' = PacketOutcome("packet_role_save", p, r, [given |-> TRUE, value |-> duration], result)
        /\ UNCHANGED <<roleVars, reminderVars, licenseVars, guildVars, redeemVars, ownerVars>>

\* ------------------------------------------------- Guild, the channel fields
\* The field defaults of reminders_channel_id, reminders_ping_in_reminders_channel,
\* diagnostic_channel_enabled and diagnostic_channel_id.
DefaultChannelFields ==
    [reminders_channel_id |-> 0, reminders_ping_in_reminders_channel |-> FALSE,
     diagnostic_channel_enabled |-> FALSE, diagnostic_channel_id |-> 0]

\* bot.get_channel(id) finds a channel: 0 is the id of none.
ChannelFound(id) == id \in Channels

\* channel.permissions_for(ctx.me).send_messages.
CanSend(id) == id \in SendableChannels

\* Guild.get(id=...).update(field=value): QuerySet.update() raises FieldError
\* for a keyword that is not a field of the model, and writes the column
\* without Guild._pre_save otherwise.
GuildUpdateResult(g, field) == IF field \in DOMAIN guildChannels[g] THEN "ok" ELSE "FieldError"

GuildUpdated(g, field, value) ==
    IF GuildUpdateResult(g, field) = "ok"
    THEN [guildChannels EXCEPT ![g] = [f \in DOMAIN @ |-> IF f = field THEN value ELSE @[f]]]
    ELSE guildChannels

\* The outcome of a channel command on guild g: its argument and the fields
\* it found.
ChannelOutcome(op, g, channel, result) == Outcome(op, g, <<channel, guildChannels[g]>>, result)

\* The set_reminders_channel command.
SetRemindersChannel(g, channel) ==
    LET result == IF ~CanSend(channel) THEN "failure"
                  ELSE GuildUpdateResult(g, "reminders_channel_id")
    IN  /\ guildChannels' = IF result = "ok"
                            THEN GuildUpdated(g, "reminders_channel_id", channel)
                            ELSE guildChannels
        /\ last' = ChannelOutcome("set_reminders_channel", g, channel, result)
        /\ UNCHANGED <<roleVars, reminderVars, licenseVars, packetVars, guilds, ctxGuild, redeemVars, ownerVars>>

\* The disable_reminders_channel command.
DisableRemindersChannel(g) ==
    /\ guildChannels' = GuildUpdated(g, "reminders_channel_id", 0)
    /\ last' = ChannelOutcome("disable_reminders_channel", g, 0,
                              GuildUpdateResult(g, "reminders_channel_id"))
    /\ UNCHANGED <<roleVars, reminderVars, licenseVars, packetVars, guilds, ctxGuild, redeemVars, ownerVars>>

\* A toggle command of a channel: turning on is refused without a channel the
\* bot finds and may send to; otherwise the flag is assigned and the guild
\* saved (_pre_save, then the UPDATE), and the message is sent to the
\* channel, which fails after the write when there is none.
ToggleResult(g, flag, channel) ==
    IF ~guildChannels[g][flag] /\ ~ChannelFound(channel) THEN "failure"
    ELSE IF ~guildChannels[g][flag] /\ ~CanSend(channel) THEN "failure"
    ELSE IF GuildPreSave(guilds[g]) # "ok" THEN GuildPreSave(guilds[g])
    ELSE IF ~ChannelFound(channel) THEN "AttributeError"
    ELSE "ok"

Toggled(g, flag, channel) ==
    IF ToggleResult(g, flag, channel) \in {"ok", "AttributeError"}
    THEN [guildChannels EXCEPT ![g][flag] = ~@]
    ELSE guildChannels

\* The toggle_reminders_channel_ping command.
ToggleRemindersChannelPing(g) ==
    LET channel == guildChannels[g].reminders_channel_id
    IN  /\ guildChannels' = Toggled(g, "reminders_ping_in_reminders_channel", channel)
        /\ last' = ChannelOutcome("toggle_reminders_channel_ping", g, channel,
                                  ToggleResult(g, "reminders_ping_in_reminders_channel", channel))
        /\ UNCHANGED <<roleVars, reminderVars, licenseVars, packetVars, guilds, ctxGuild, redeemVars, ownerVars>>

\* The setup_diagnostics command: update(diagnostics_channel_id=...).
SetupDiagnostics(g, channel) ==
    /\ guildChannels' = GuildUpdated(g, "diagnostics_channel_id", channel)
    /\ last' = ChannelOutcome("setup_diagnostics", g, channel,
                              GuildUpdateResult(g, "diagnostics_channel_id"))
    /\ UNCHANGED <<roleVars, reminderVars, licenseVars, packetVars, guilds, ctxGuild, redeemVars, ownerVars>>

\* The toggle_diagnostics command.
ToggleDiagnostics(g) ==
    LET channel == guildChannels[g].diagnostic_channel_id
    IN  /\ guildChannels' = Toggled(g, "diagnostic_channel_enabled", channel)
        /\ last' = ChannelOutcome("toggle_diagnostics", g, channel,
                                  ToggleResult(g, "diagnostic_channel_enabled", channel))
        /\ UNCHANGED <<roleVars, reminderVars, licenseVars, packetVars, guilds, ctxGuild, redeemVars, ownerVars>>

\* ------------------------------------------------------- the read commands
\* The name of a role packet: every guild named its packet "vip" (the name is
\* unique within a guild only, unique_together (name, guild)).
PacketName(p) == "vip"

\* The rows of table whose role belongs to guild g.
RolesOfGuild(table, g) == [r \in {x \in DOMAIN table : table[x].guild = g} |-> table[r]]

\* The rows of packet roles whose packet belongs to guild g.
PacketRolesOfGuild(rows, g) == {row \in rows : RolePacketRow(row.role_packet).guild = g}

\* show_packet_data in guild g on the packet_roles rows given:
\* PacketRole.filter(role_packet__name=packet_name); the failure message when
\* there is none; otherwise a line of role and duration per row, for which
\* ctx.guild.get_role(id) is None, and .mention raises, when the role is not
\* one of the guild.
PacketData(rows, g, name) ==
    LET found == {row \in rows : PacketName(row.role_packet) = name}
    IN  IF found = {} THEN [result |-> "failure", message |-> {}]
        ELSE IF \E row \in found : RoleGuild(row.role) # g
             THEN [result |-> "AttributeError", message |-> {}]
             ELSE [result |-> "ok", message |-> {<<row.role, row.duration>> : row \in found}]

\* show_tier_hierarchy on the roles table given: Role.filter(tier_level__gte=0);
\* the failure message when there is none; otherwise the roles are grouped
\* under a "Level" heading per tier_power, each with its id and tier_level.
\* (The order of the lines under a heading is not modelled.)
TierHierarchy(table) ==
    LET found == {r \in DOMAIN table : table[r].tier_level >= 0}
        headings == {table[r].tier_power : r \in found}
    IN  IF found = {} THEN [result |-> "failure", message |-> <<>>]
        ELSE [result |-> "ok",
              message |-> [h \in headings |->
                              {<<r, table[r].tier_level>> : r \in {x \in found : table[x].tier_power = h}}]]

\* The show_packet_data command.
ShowPacketData(g, name) ==
    /\ last' = Outcome("show_packet_data", g, <<PacketData(packetRoles, g, name).message, name>>,
                       PacketData(packetRoles, g, name).result)
    /\ UNCHANGED <<roleVars, reminderVars, licenseVars, cogVars>>

\* The show_tier_hierarchy command.
ShowTierHierarchy(g) ==
    /\ last' = Outcome("show_tier_hierarchy", g, <<TierHierarchy(roles).message>>,
                       TierHierarchy(roles).result)
    /\ UNCHANGED <<roleVars, reminderVars, licenseVars, cogVars>>

\* ==================================================== bot-owner commands
\* Path(__file__).stem of bot/cogs/bot_owner_commands.py.
ProtectedCog == "bot_owner_commands"

\* The modules under bot/cogs.
AvailableCogs == {"bot_owner_commands", "configuration", "roles"}

\* The extension_name arguments of load and unload.
ExtensionInputs == AvailableCogs \cup {"BOT_OWNER_COMMANDS"}

\* The count_minutes arguments of update.
CountInputs == {1, 2}

IdleOwnerTask == [pc |-> "idle", minutes |-> 0]

\* The bot after start: its cogs are loaded and no update is in progress.
InitOwner ==
    /\ extensions = AvailableCogs
    /\ updateInProgress = FALSE
    /\ ownerTask = [t \in Tasks |-> IdleOwnerTask]

OwnerOutcome(op, name, result) == Outcome(op, name, <<extensions>>, result)

\* The load command: bot.load_extension raises for a loaded extension and
\* for a module it does not find.
Load(name) ==
    LET result == IF name \in extensions THEN "ExtensionAlreadyLoaded"
                  ELSE IF name \notin AvailableCogs THEN "ExtensionNotFound"
                  ELSE "ok"
    IN  /\ extensions' = IF result = "ok" THEN extensions \cup {name} ELSE extensions
        /\ last' = OwnerOutcome("load", name, result)
        /\ UNCHANGED <<roleVars, reminderVars, licenseVars, packetVars, guildVars, redeemVars,
                       updateInProgress, ownerTask>>

UnloadNoProtection(name) ==
    LET result == IF name \notin extensions THEN "ExtensionNotLoaded" ELSE "ok"
    IN  /\ extensions' = IF result = "ok" THEN extensions \ {name} ELSE extensions
        /\ last' = OwnerOutcome("unload", name, result)
        /\ UNCHANGED <<roleVars, reminderVars, licenseVars, packetVars, guildVars, redeemVars,
                       updateInProgress, ownerTask>>

\* The unload command: the failure message for the cog's own module name;
\* otherwise bot.unload_extension, which raises for an extension not loaded.
Unload(name) ==
    LET result == IF name = ProtectedCog THEN "failure"
                  ELSE IF name \notin extensions THEN "ExtensionNotLoaded"
                  ELSE "ok"
    IN  /\ extensions' = IF result = "ok" THEN extensions \ {name} ELSE extensions
        /\ last' = OwnerOutcome("unload", name, result)
        /\ UNCHANGED <<roleVars, reminderVars, licenseVars, packetVars, guildVars, redeemVars,
                       updateInProgress, ownerTask>>

\* The tasks whose update is counting down.
CountingDown == {t \in Tasks : ownerTask[t].pc = "countdown"}

UpdateOutcome(op, t, count, result) == Outcome(op, t, <<count, CountingDown # {}>>, result)

\* update up to its first await: the flag is tested and set, and the
\* countdown is entered.
UpdateBegin(t, count) ==
    /\ ownerTask[t].pc = "idle"
    /\ IF updateInProgress
       THEN /\ last' = UpdateOutcome("update", t, count, "failure")
            /\ UNCHANGED <<updateInProgress, ownerTask>>
       ELSE /\ updateInProgress' = TRUE
            /\ ownerTask' = [ownerTask EXCEPT ![t] = [pc |-> "countdown", minutes |-> count]]
            /\ last' = UpdateOutcome("update", t, count, "countdown")
    /\ UNCHANGED <<roleVars, reminderVars, licenseVars, packetVars, guildVars, redeemVars,
                   extensions>>

\* One round of the countdown: change_presence and asyncio.sleep(60).
UpdateTick(t) ==
    /\ ownerTask[t].pc = "countdown"
    /\ ownerTask' = [ownerTask EXCEPT ![t] =
           IF ownerTask[t].minutes > 1
           THEN [pc |-> "countdown", minutes |-> ownerTask[t].minutes - 1]
           ELSE [pc |-> "announce", minutes |-> 0]]
    /\ UNCHANGED <<roleVars, reminderVars, licenseVars, packetVars, guildVars, redeemVars,
                   extensions, updateInProgress, last>>

\* The progress message is sent and the presence changed; the flag stays set.
UpdateAnnounce(t) ==
    /\ ownerTask[t].pc = "announce"
    /\ ownerTask' = [ownerTask EXCEPT ![t] = IdleOwnerTask]
    /\ last' = UpdateOutcome("update", t, 0, "ok")
    /\ UNCHANGED <<roleVars, reminderVars, licenseVars, packetVars, guildVars, redeemVars,
                   extensions, updateInProgress>>

\* update_done up to its awaits: the message is sent and the presence changed.
UpdateDoneBegin(t) ==
    /\ ownerTask[t].pc = "idle"
    /\ ownerTask' = [ownerTask EXCEPT ![t] = [pc |-> "done", minutes |-> 0]]
    /\ UNCHANGED <<roleVars, reminderVars, licenseVars, packetVars, guildVars, redeemVars,
                   extensions, updateInProgress, last>>

\* update_done, after its awaits: self.bot.update_in_progress = False.
UpdateDoneFinish(t) ==
    /\ ownerTask[t].pc = "done"
    /\ updateInProgress' = FALSE
    /\ ownerTask' = [ownerTask EXCEPT ![t] = IdleOwnerTask]
    /\ last' = UpdateOutcome("update_done", t, 0, "ok")
    /\ UNCHANGED <<roleVars, reminderVars, licenseVars, packetVars, guildVars, redeemVars,
                   extensions>>

OwnerStep(t) ==
    \/ \E count \in CountInputs : UpdateBegin(t, count)
    \/ UpdateTick(t)
    \/ UpdateAnnounce(t)
    \/ UpdateDoneBegin(t)
    \/ UpdateDoneFinish(t)

\* ================================================================== specs
InitLicenseTables ==
    /\ reminders = [g \in Guilds |-> DefaultActivations]
    /\ licenses = [kind \in LicenseKinds |-> <<>>]
    /\ regenTask = [t \in Tasks |-> IdleRegenTask]
    /\ minted = {}

InitGuildTable ==
    /\ guilds = [g \in Guilds |-> DefaultGuildRow]
    /\ guildChannels = [g \in Guilds |-> DefaultChannelFields]

InitRedeemTables ==
    /\ licensedMembers = {}
    /\ licensedRoles = {}
    /\ redeemTask = [t \in Tasks |-> IdleRedeemTask]
    /\ InitOwner

InitTables ==
    /\ roles = <<>>
    /\ roleTask = [t \in Tasks |-> IdleRoleTask]
    /\ InitLicenseTables
    /\ packetRoles = {}
    /\ InitGuildTable
    /\ ctxGuild = 1
    /\ InitRedeemTables
    /\ last = NoOp

Init ==
    /\ InitTables
    /\ raArgs = DefaultActivations

\* Commands of one guild arriving at any time: coroutines interleave at awaits.
NextRole == \E t \in Tasks : EditRoleStep(t)

\* Commands handled one after the other.
NextRoleSeq == \E t \in Tasks : RoleTaskAlone(t) /\ EditRoleStep(t)

SpecRole == Init /\ [][NextRole]_vars

SpecRoleSeq == Init /\ [][NextRoleSeq]_vars

\* Commands handled one after the other, by one task.
NextRoleRange == EditRoleRangeStep("t1")

SpecRoleRange == Init /\ [][NextRoleRange]_vars

\* As Init, for any five activations the caller may pass.
InitReminder ==
    /\ InitTables
    /\ raArgs \in ActivationInputs

NextReminder ==
    \/ \E g \in Guilds : EditDefaultReminders(g)
    \/ CreateEasy

SpecReminder == InitReminder /\ [][NextReminder]_vars

\* As Init, for the activations a caller may give a license of its own.
InitLicense ==
    /\ InitTables
    /\ raArgs \in LicenseActivationInputs

\* regenerate() coroutines interleaving at their awaits with each other and
\* with the creation of licenses.
NextLicense ==
    \/ RegenLicenseCreate
    \/ \E t \in Tasks : RegenerateStep(t)

\* The same operations handled one after the other, on licenses with default
\* reminders or reminders of their own.
NextLicenseSeq ==
    \/ NoRegenTask /\ RegenLicenseCreate
    \/ NoRegenTask /\ RegenLicenseOwnReminders
    \/ \E t \in Tasks : RegenTaskAlone(t) /\ RegenerateStep(t)

SpecLicense == Init /\ [][NextLicense]_vars

SpecLicenseSeq == InitLicense /\ [][NextLicenseSeq]_vars

\* License and MultipleUseLicense rows created and saved by their callers.
NextLicenseStore == LicenseStoreCall

SpecLicenseStore == Init /\ [][NextLicenseStore]_vars

\* Licenses of the three models created, and regenerated, one call after the
\* other.
NextLicenseKey ==
    \/ NoRegenTask /\ LicenseKeyCreate
    \/ \E t \in Tasks : RegenTaskAlone(t) /\ RegenerateStep(t)

SpecLicenseKey == Init /\ [][NextLicenseKey]_vars

\* A guild whose packet already holds the filler roles; the filler and spare
\* roles have their rows.
InitPacket ==
    /\ roles = [r \in FillerRoles \cup SpareRoles |-> RoleRow(RoleGuild(r), 0, 1)]
    /\ roleTask = [t \in Tasks |-> IdleRoleTask]
    /\ InitLicenseTables
    /\ raArgs = DefaultActivations
    /\ InitGuildTable
    /\ ctxGuild = 1
    /\ InitRedeemTables
    /\ packetRoles = {[role |-> r, role_packet |-> 1,
                       duration |-> RolePacketRow(1).default_role_duration] : r \in FillerRoles}
    /\ last = NoOp

\* The role-packet commands, and PacketRole.create on its own, one after the other.
NextPacket ==
    \/ \E g \in Guilds, p \in RolePackets, r \in PacketRoleInputs, dur \in DurationArgs :
           AddPacketRole(g, p, r, dur)
    \/ \E g \in Guilds, p \in RolePackets, r \in PacketRoleInputs : RemovePacketRole(g, p, r)
    \/ \E p \in RolePackets, r \in PacketRoleInputs, dur \in DurationArgs :
           PacketRoleCreate(p, r, dur)

SpecPacket == InitPacket /\ [][NextPacket]_vars

\* As Init, for any guild the configuration commands may be invoked in.
InitGuild ==
    /\ roles = <<>>
    /\ roleTask = [t \in Tasks |-> IdleRoleTask]
    /\ InitLicenseTables
    /\ raArgs = DefaultActivations
    /\ packetRoles = {}
    /\ InitGuildTable
    /\ ctxGuild \in Guilds
    /\ InitRedeemTables
    /\ last = NoOp

\* The configuration commands of the guild, and saves of its row.
NextGuild ==
    \/ \E prefix \in PrefixInputs : PrefixCommand(ctxGuild, prefix)
    \/ \E format \in FormatInputs : LicenseFormatCommand(ctxGuild, format)
    \/ \E branding \in BrandingInputs : LicenseBrandingCommand(ctxGuild, branding)
    \/ \E timezone \in TimezoneInputs : TimezoneCommand(ctxGuild, timezone)
    \/ \E language \in LanguageInputs : LanguageCommand(ctxGuild, language)
    \/ \E row \in GuildSaveInputs(ctxGuild) : GuildSave(ctxGuild, row)

SpecGuild == InitGuild /\ [][NextGuild]_vars

\* A guild with tiered roles and two licenses that can be used more than once.
InitRedeem ==
    /\ roles = [r \in RedeemRoles |-> RedeemRoleRow(r)]
    /\ roleTask = [t \in Tasks |-> IdleRoleTask]
    /\ reminders = [i \in 1..(NumGuilds + 2) |-> DefaultActivations]
    /\ raArgs = DefaultActivations
    /\ licenses = [kind \in LicenseKinds |->
           IF kind = MultiUse
           THEN [k \in DOMAIN InitialUses |->
                    LicenseRow(1, NumGuilds + InitialUses[k], FALSE, InitialUses[k], 0)]
           ELSE <<>>]
    /\ regenTask = [t \in Tasks |-> IdleRegenTask]
    /\ minted = {}
    /\ packetRoles = {}
    /\ InitGuildTable
    /\ ctxGuild = 1
    /\ InitRedeemTables
    /\ last = NoOp

\* Redemptions of validated licenses, one after the other.
NextRedeemTier ==
    \E m \in Members, rs \in RoleLists : GrantEntitlements(m, "BBBBBBBBBBBBBBB", rs)

SpecRedeemTier == InitRedeem /\ [][NextRedeemTier]_vars

\* Redemptions arriving at any time.
NextRedeemUse == \E t \in Tasks : RedeemStep(t)

SpecRedeemUse == InitRedeem /\ [][NextRedeemUse]_vars

\* The guild's default reminders edited, and licenses of the three models
\* created without reminder_activations, one call after the other.
NextLicenseDefaults ==
    \/ \E g \in Guilds : EditDefaultReminders(g)
    \/ LicenseKeyCreate

SpecLicenseDefaults == InitLicense /\ [][NextLicenseDefaults]_vars

\* The role-packet operations and saves of stored PacketRoles.
NextPacketSave ==
    \/ NextPacket
    \/ \E p \in RolePackets, r \in PacketRoleInputs, duration \in {-1, 5} :
           PacketRoleSave(p, r, duration)

SpecPacketSave == InitPacket /\ [][NextPacketSave]_vars

\* The channel commands of the guild, one after the other.
NextChannels ==
    \/ \E channel \in Channels : SetRemindersChannel(ctxGuild, channel)
    \/ DisableRemindersChannel(ctxGuild)
    \/ ToggleRemindersChannelPing(ctxGuild)
    \/ \E channel \in Channels : SetupDiagnostics(ctxGuild, channel)
    \/ ToggleDiagnostics(ctxGuild)

SpecChannels == InitGuild /\ [][NextChannels]_vars

\* The role and role-packet commands of all guilds and the read commands, one
\* after the other.
NextViews ==
    \/ EditRoleStep("t1")
    \/ \E g \in Guilds, p \in RolePackets, r \in {1, 2} :
           /\ roleTask["t1"].pc = "idle"
           /\ AddPacketRole(g, p, r, [given |-> FALSE, value |-> 0])
    \/ \E g \in Guilds, p \in RolePackets, r \in {1, 2} :
           /\ roleTask["t1"].pc = "idle"
           /\ RemovePacketRole(g, p, r)
    \/ \E g \in Guilds : roleTask["t1"].pc = "idle" /\ ShowPacketData(g, "vip")
    \/ \E g \in Guilds : roleTask["t1"].pc = "idle" /\ ShowTierHierarchy(g)

SpecViews == Init /\ [][NextViews]_vars

\* The bot-owner commands arriving at any time.
NextOwner ==
    \/ \E name \in ExtensionInputs : Load(name)
    \/ \E name \in ExtensionInputs : Unload(name)
    \/ \E t \in Tasks : OwnerStep(t)

SpecOwner == Init /\ [][NextOwner]_vars

\* ================================================================= claims

\* No two distinct stored roles of one guild hold the same non-zero slot.
TierSlotUnique ==
    \A r1 \in DOMAIN roles, r2 \in DOMAIN roles :
        (/\ r1 # r2
         /\ roles[r1].guild = roles[r2].guild
         /\ roles[r1].tier_level > 0
         /\ roles[r1].tier_level = roles[r2].tier_level)
        => roles[r1].tier_power # roles[r2].tier_power

\* The stored roles other than r that hold slot (lvl, pw) of guild g.
OtherHolders(r, g, lvl, pw) ==
    {o \in DOMAIN roles \ {r} :
        roles[o].guild = g /\ roles[o].tier_level = lvl /\ roles[o].tier_power = pw}

LastEditRoleRejected == last.op = "edit_role" /\ last.result = "IntegrityError"

\* C1: with edit_role commands handled one after the other, no two distinct
\* roles of a guild ever share a slot (tier_level, tier_power) with
\* tier_level > 0; an edit_role that ends with the integrity error found
\* another holder of the requested slot and left its own row without that
\* slot, and an edit_role that succeeded holds the requested slot alone.
C1_TierSlotUniqueSequential ==
    /\ TierSlotUnique
    /\ LastEditRoleRejected =>
          /\ OtherHolders(last.id, roles[last.id].guild, last.args[1], last.args[2]) # {}
          /\ <<roles[last.id].tier_level, roles[last.id].tier_power>> # last.args
    /\ (last.op = "edit_role" /\ last.result = "ok" /\ last.args[1] > 0) =>
          /\ <<roles[last.id].tier_level, roles[last.id].tier_power>> = last.args
          /\ OtherHolders(last.id, roles[last.id].guild, last.args[1], last.args[2]) = {}

\* C1 witness: an edit_role was rejected as a duplicate while another role of
\* the guild holds the requested non-zero slot.
C1_Witness ==
    /\ LastEditRoleRejected
    /\ last.args[1] > 0
    /\ OtherHolders(last.id, roles[last.id].guild, last.args[1], last.args[2]) # {}

\* C2: with two edit_role saves to one slot interleaved at their awaits, every
\* non-zero slot of every guild still has at most one holder in every state.
C2_InterleavedSavesKeepSlotUnique ==
    \A g \in Guilds, lvl \in TierLevelInputs \ {0}, pw \in TierPowerInputs :
        Cardinality({r \in DOMAIN roles :
            roles[r].guild = g /\ roles[r].tier_level = lvl /\ roles[r].tier_power = pw}) <= 1

\* C17 as stated: every stored role has tier_level in 0..100 and tier_power
\* in 1..9, and an edit_role save with a value outside these is rejected.
C17_TierPowerAtLeastOne ==
    /\ \A r \in DOMAIN roles :
           /\ 0 <= roles[r].tier_level /\ roles[r].tier_level <= 100
           /\ 1 <= roles[r].tier_power /\ roles[r].tier_power <= 9
    /\ (last.op = "edit_role"
           /\ ~(0 <= last.args[1] /\ last.args[1] <= 100 /\ 1 <= last.args[2] /\ last.args[2] <= 9))
          => last.result = "FieldError"

\* C17 amended: every stored role has tier_level in 0..100 and tier_power in
\* 0..9; an edit_role save with a value outside these is rejected with the
\* field error and its values are not in the row, and a save of an untiered
\* role with values inside them is accepted and stored.
C17_TierFieldsInRange ==
    /\ \A r \in DOMAIN roles :
           /\ 0 <= roles[r].tier_level /\ roles[r].tier_level <= 100
           /\ 0 <= roles[r].tier_power /\ roles[r].tier_power <= 9
    /\ (last.op = "edit_role"
           /\ ~(0 <= last.args[1] /\ last.args[1] <= 100 /\ 0 <= last.args[2] /\ last.args[2] <= 9))
          => /\ last.result = "FieldError"
             /\ <<roles[last.id].tier_level, roles[last.id].tier_power>> # last.args
    /\ (last.op = "edit_role" /\ last.args[1] = 0 /\ 0 <= last.args[2] /\ last.args[2] <= 9)
          => /\ last.result = "ok"
             /\ <<roles[last.id].tier_level, roles[last.id].tier_power>> = last.args

\* C17 witness: a save with tier_power 10 was rejected on a role whose stored
\* values are the ends of the ranges, tier_level 100 and tier_power 0.
C17_Witness ==
    /\ last.op = "edit_role"
    /\ last.args[2] = 10
    /\ last.result = "FieldError"
    /\ roles[last.id].tier_level = 100
    /\ roles[last.id].tier_power = 0

\* ----------------------------------------------------- ReminderActivations
IsReminderSave(o) == o.op \in {"edit_default_reminders", "create_easy"}

HasAdjacentDuplicate(a) ==
    \E i \in 1..(NumActivations - 1) : a[i] # 0 /\ a[i] = a[i + 1]

HasLaterLarger(a) ==
    \E i \in 1..NumActivations, j \in 1..NumActivations : i < j /\ a[j] > a[i]

\* C3: a ReminderActivations save with two equal non-zero neighbours, or with
\* a later offset larger than an earlier one, is rejected.
C3_NotStrictlyDecreasingRejected ==
    (IsReminderSave(last) /\ (HasAdjacentDuplicate(last.args) \/ HasLaterLarger(last.args)))
        => last.result = "FieldError"

BadFirstOrNegative(a) == a[1] <= 0 \/ \E i \in 1..NumActivations : a[i] < 0

StoredRowsValid ==
    \A id \in DOMAIN reminders :
        reminders[id][1] > 0 /\ \A i \in 1..NumActivations : reminders[id][i] >= 0

\* C4: every stored ReminderActivations row has first_activation > 0 and no
\* negative offset; a save attempt with first_activation <= 0 or a negative
\* offset is rejected and leaves the table as it was.
C4_InvalidSaveRejectedAndNotWritten ==
    [][(last' # last /\ IsReminderSave(last')) =>
          /\ StoredRowsValid'
          /\ BadFirstOrNegative(last'.args) =>
                (last'.result = "FieldError" /\ reminders' = reminders)]_vars

ZerosTrail(a) ==
    \A i \in 1..NumActivations, j \in 1..NumActivations : (i < j /\ a[i] = 0) => a[j] = 0

DecreasingPrefixThenZeros(a) ==
    /\ a[1] > 0
    /\ \A i \in 1..NumActivations : a[i] >= 0
    /\ ZerosTrail(a)
    /\ \A i \in 1..(NumActivations - 1) : a[i + 1] # 0 => a[i] > a[i + 1]

\* C5: an accepted ReminderActivations save has its zero offsets after all set
\* offsets; a save with a zero offset before a non-zero one is rejected, and a
\* strictly decreasing positive prefix followed only by zeros is accepted.
C5_ZerosTrailSetOffsets ==
    IsReminderSave(last) =>
        /\ last.result = "ok" => ZerosTrail(last.args)
        /\ ~ZerosTrail(last.args) => last.result = "FieldError"
        /\ DecreasingPrefixThenZeros(last.args) => last.result = "ok"

\* C5 witness: a save whose first offset is set and that has no negative
\* offset was rejected for a zero offset standing before a set one.
C5_Witness ==
    /\ IsReminderSave(last)
    /\ last.args[1] > 0
    /\ \A i \in 1..NumActivations : last.args[i] >= 0
    /\ ~ZerosTrail(last.args)
    /\ last.args[2] = 0
    /\ last.result = "FieldError"

\* ---------------------------------------------------------------- License
LastRegenerateOfActive ==
    last.op = "regenerate" /\ last.result = "ok" /\ ~last.args[3]

\* C6: when regenerate() has succeeded on a license L that was Active, L is
\* stored inactive and the table holds exactly one license it did not hold
\* before the call: it is Active, has another key than L, the guild and the
\* role packet of L, and a ReminderActivations row that no other owner refers
\* to and whose five offsets equal those of L's row.
C6_RegenerateReplacesLicense ==
    LastRegenerateOfActive =>
        LET T == licenses[Regen]
            L == last.id
            N == last.args[1]
        IN  /\ L \in DOMAIN T
            /\ T[L].inactive
            /\ DOMAIN T \ last.args[2] = {N}
            /\ N # L
            /\ ~T[N].inactive
            /\ T[N].guild = T[L].guild
            /\ T[N].role_packet = T[L].role_packet
            /\ T[N].reminder_activations # T[L].reminder_activations
            /\ \A o \in DOMAIN T \ {N} : T[o].reminder_activations # T[N].reminder_activations
            /\ \A g \in Guilds : GuildReminders(g) # T[N].reminder_activations
            /\ reminders[T[N].reminder_activations] = reminders[T[L].reminder_activations]

\* C6 witness: regenerate() succeeded on an Active license whose reminders are
\* not the defaults.
C6_Witness ==
    /\ LastRegenerateOfActive
    /\ last.id \in DOMAIN licenses[Regen]
    /\ reminders[licenses[Regen][last.id].reminder_activations] # DefaultActivations

\* C7: while regenerate() runs and its new license is stored, exactly one of
\* the regenerated license and the new license is Active.
C7_RegenerateLooksAtomic ==
    \A t \in Tasks :
        (/\ regenTask[t].pc = "deactivate"
         /\ regenTask[t].key \in DOMAIN licenses[Regen]
         /\ regenTask[t].newKey \in DOMAIN licenses[Regen])
        => (licenses[Regen][regenTask[t].key].inactive
               # licenses[Regen][regenTask[t].newKey].inactive)

\* C8: for every license at most one replacement license is ever minted,
\* however often and however interleaved regenerate() is invoked on it.
C8_AtMostOneReplacement ==
    \A k \in KeyPool : Cardinality({n \in KeyPool : <<k, n>> \in minted}) <= 1

\* C9: a stored license whose inactive flag is true is not Active after any
\* step.
C9_InactiveStaysInactive ==
    [][\A kind \in LicenseKinds :
          \A k \in DOMAIN licenses[kind] :
              (k \in DOMAIN licenses'[kind] /\ licenses[kind][k].inactive)
                  => licenses'[kind][k].inactive]_vars

\* C10: every stored MultipleUseLicense with uses_left = 0 is inactive.
C10_ExhaustedMultipleUseInactive ==
    \A k \in DOMAIN licenses["MultipleUseLicense"] :
        licenses["MultipleUseLicense"][k].uses_left = 0
            => licenses["MultipleUseLicense"][k].inactive

IsMultipleUseStore(o) ==
    o.op \in {"license_create", "license_save"} /\ o.args[1] = "MultipleUseLicense"

\* C11: every stored MultipleUseLicense has 0 <= uses_left <= 1,000,000; a
\* create or save with uses_left outside that range is rejected with the field
\* error, and one with uses_left inside it (and an acceptable, unused key) is
\* accepted and leaves exactly that uses_left in the row.
C11_UsesLeftInRangeStoredUnchanged ==
    /\ \A k \in DOMAIN licenses["MultipleUseLicense"] :
           /\ 0 <= licenses["MultipleUseLicense"][k].uses_left
           /\ licenses["MultipleUseLicense"][k].uses_left <= MaximumUsesLeft
    /\ IsMultipleUseStore(last) =>
           /\ (last.args[2] < 0 \/ last.args[2] > MaximumUsesLeft) => last.result = "FieldError"
           /\ (/\ 0 <= last.args[2]
               /\ last.args[2] <= MaximumUsesLeft
               /\ Len(last.id) >= KeyMinLength
               /\ last.result # "IntegrityError")
              => /\ last.result = "ok"
                 /\ licenses["MultipleUseLicense"][last.id].uses_left = last.args[2]

\* C12: every stored license of every model has a key of at least 14
\* characters; a create with a shorter key, and a regenerate() whose new key is
\* shorter, is rejected with the field error, and a key of exactly 14
\* characters is accepted wherever the key is not stored already.
C12_StoredKeysLongEnough ==
    /\ \A kind \in LicenseKinds : \A k \in DOMAIN licenses[kind] : Len(k) >= KeyMinLength
    /\ last.op = "license_create" =>
           /\ Len(last.id) < KeyMinLength => last.result = "FieldError"
           /\ (Len(last.id) = KeyMinLength /\ last.result # "IntegrityError")
                 => (last.result = "ok" /\ last.id \in DOMAIN licenses[last.args[1]])
    /\ last.op = "regenerate" =>
           /\ Len(last.args[1]) < KeyMinLength => last.result = "FieldError"
           /\ (Len(last.args[1]) = KeyMinLength /\ last.result # "IntegrityError")
                 => (last.result = "ok" /\ last.args[1] \in DOMAIN licenses[Regen])

\* C12 witness: regenerate() drew a key of 13 characters and was rejected,
\* while a license with a key of exactly 14 characters, minted by an earlier
\* regenerate(), is stored.
C12_Witness ==
    /\ last.op = "regenerate"
    /\ Len(last.args[1]) = KeyMinLength - 1
    /\ last.result = "FieldError"
    /\ \E m \in minted : Len(m[2]) = KeyMinLength /\ m[2] \in DOMAIN licenses[Regen]

\* ------------------------------------------------------------- PacketRole
IsPacketAdd(o) == o.op \in {"add_packet_role", "packet_role_create"}

\* The packet, the duration argument and the number of roles the packet held
\* when the last packet operation was called.
LastPacket == last.args[1]

LastDuration == last.args[2]

LastCountBefore == last.args[3]

InPacket(p, r) == \E row \in PacketRolesOf(p) : row.role = r

\* C13: every role packet holds at most 20 packet roles; an add to a packet
\* that holds 20 is rejected and leaves the packet with the same 20 roles and
\* without the role, and an add_packet_role to a packet that holds fewer ends
\* with the role in the packet, a packet of 19 holding 20 after an accepted add.
C13_PacketHoldsAtMostTwentyRoles ==
    /\ \A p \in RolePackets : Cardinality(PacketRolesOf(p)) <= MaximumRoles
    /\ (IsPacketAdd(last) /\ LastCountBefore >= MaximumRoles) =>
           /\ last.result = "IntegrityError" \/ last.result = "FieldError"
           /\ Cardinality(PacketRolesOf(LastPacket)) = LastCountBefore
    /\ (last.op = "add_packet_role" /\ LastCountBefore < MaximumRoles) =>
           /\ InPacket(LastPacket, last.id)
           /\ last.result = "ok" => Cardinality(PacketRolesOf(LastPacket)) = LastCountBefore + 1

\* C13 witness: add_packet_role was rejected on a packet that holds 20 roles,
\* the role not among them.
C13_Witness ==
    /\ last.op = "add_packet_role"
    /\ LastCountBefore = MaximumRoles
    /\ last.result = "IntegrityError"
    /\ ~InPacket(LastPacket, last.id)
    /\ Cardinality(PacketRolesOf(LastPacket)) = MaximumRoles

GuildMismatch(p, r) == roles[r].guild # RolePacketRow(p).guild

\* C16: every stored PacketRole has a role of the guild of its role packet; a
\* PacketRole.create whose role belongs to another guild than its packet is
\* rejected and not written, with the integrity error (a negative duration is
\* refused first, with the field error).
C16_PacketRoleGuildsMatch ==
    /\ \A row \in packetRoles : ~GuildMismatch(row.role_packet, row.role)
    /\ (IsPacketAdd(last) /\ GuildMismatch(LastPacket, last.id)) =>
           /\ ~InPacket(LastPacket, last.id)
           /\ Cardinality(PacketRolesOf(LastPacket)) = LastCountBefore
           /\ last.result = IF LastDuration.value < 0 THEN "FieldError" ELSE "IntegrityError"

\* C16 witness: PacketRole.create with a role of another guild than the
\* packet's, a valid duration and room in the packet was rejected with the
\* integrity error.
C16_Witness ==
    /\ last.op = "packet_role_create"
    /\ GuildMismatch(LastPacket, last.id)
    /\ LastDuration.value > 0
    /\ LastCountBefore < MaximumRoles
    /\ last.result = "IntegrityError"

\* C18: a PacketRole created by PacketRole.create or add_packet_role has the
\* packet's default_role_duration when the caller gave no duration, and the
\* given duration d, for every d >= 0, when the caller gave one.
C18_CreateStoresGivenDuration ==
    (IsPacketAdd(last) /\ last.result = "ok") =>
        \A row \in PacketRolesOf(LastPacket) :
            row.role = last.id =>
                row.duration = IF LastDuration.given
                               THEN LastDuration.value
                               ELSE RolePacketRow(LastPacket).default_role_duration

\* ------------------------------------------------------------------ Guild
\* The row the last configuration operation was to leave, and the row it found.
LastAttempted == last.args[1]

LastFound == last.args[2]

IsGuildOp(o) ==
    o.op \in {"guild_save", "prefix", "license_format", "license_branding", "timezone", "language"}

\* A template that is set and is not secure.
Insecure(format) == format # <<>> /\ ~IsSecure(format)

\* C14: no stored guild has a custom_license_format that is set and not
\* secure; the license_format command and a Guild save with a template that
\* is not secure end with an error to the caller (the failure message, the
\* field error) and leave the stored row as it was.
C14_InsecureFormatNeverStored ==
    /\ \A g \in Guilds : ~Insecure(guilds[g].custom_license_format)
    /\ (last.op \in {"license_format", "guild_save"}
           /\ Insecure(LastAttempted.custom_license_format)) =>
           /\ last.result = IF last.op = "license_format" THEN "failure" ELSE "FieldError"
           /\ guilds[last.id] = LastFound

\* C14 witness: a Guild save with a template that is not secure was rejected
\* on a guild whose stored template is a secure one.
C14_Witness ==
    /\ last.op = "guild_save"
    /\ Insecure(LastAttempted.custom_license_format)
    /\ last.result = "FieldError"
    /\ guilds[last.id].custom_license_format # <<>>
    /\ IsSecure(guilds[last.id].custom_license_format)

GuildFieldsInRange(row) ==
    /\ TimezoneMin <= row.timezone /\ row.timezone <= TimezoneMax
    /\ Len(row.custom_prefix) <= MaxPrefixLength
    /\ Len(row.license_branding) <= MaxBrandingLength
    /\ Len(row.custom_license_format) <= MaxFormatLength

\* C15: every stored guild has timezone in -12..14, a custom_prefix of at
\* most 10, a license_branding of at most 50 and a custom_license_format of at
\* most 100 characters; a configuration command or Guild save with a value
\* outside these is rejected and leaves the stored row as it was.
C15_GuildFieldsInRange ==
    /\ \A g \in Guilds : GuildFieldsInRange(guilds[g])
    /\ (IsGuildOp(last) /\ ~GuildFieldsInRange(LastAttempted)) =>
           /\ last.result # "ok"
           /\ guilds[last.id] = LastFound

\* ------------------------------------------------------------------ C19
IsRedeem == last.op = "redeem"
RedeemMember == last.args[1]
RedeemRoleList == last.args[2]
HeldBefore == last.args[3]
WasContended == last.args[4]

TierLevelOf(r) == roles[r].tier_level
TierPowerOf(r) == roles[r].tier_power

Redeemers(k) == {row.member : row \in {x \in licensedMembers : x.license = k}}

\* C20: of two concurrent redemptions of a multi-use license with one use
\* left exactly one succeeds, leaving uses_left = 0 and the license inactive,
\* and the other is rejected with a state error; uses_left is never negative
\* and no use is consumed twice.
C20_OneUseConsumedOnce ==
    /\ \A k \in DOMAIN InitialUses :
           /\ licenses[MultiUse][k].uses_left >= 0
           /\ licenses[MultiUse][k].uses_left + Cardinality(Redeemers(k)) = InitialUses[k]
           /\ licenses[MultiUse][k].inactive <=> (licenses[MultiUse][k].uses_left = 0)
    /\ \A k \in DOMAIN InitialUses :
           (IsRedeem /\ last.id = k /\ InitialUses[k] = 1) =>
               /\ Cardinality(Redeemers(k)) = 1
               /\ licenses[MultiUse][k].uses_left = 0
               /\ licenses[MultiUse][k].inactive
               /\ last.result = "ok" => Redeemers(k) = {RedeemMember}
               /\ last.result # "ok" => last.result = "StateError"

\* Two redemptions of the license with one use were pending together; the
\* one that completed last was rejected, the other member has redeemed.
C20_Witness ==
    /\ IsRedeem
    /\ InitialUses[last.id] = 1
    /\ WasContended
    /\ last.result = "StateError"
    /\ Redeemers(last.id) = Members \ {RedeemMember}
    /\ licenses[MultiUse][last.id].uses_left = 0
    /\ licenses[MultiUse][last.id].inactive

\* ------------------------------------------------------------------ C21
\* C21: a license created without reminder_activations has the reminder
\* offsets of its guild's reminder_activations as they are configured when it
\* is created.
C21_CreateUsesGuildReminders ==
    (last.op = "license_create" /\ last.result = "ok") =>
        LET row == licenses[last.args[1]][last.id]
        IN  reminders[row.reminder_activations] = reminders[GuildReminders(row.guild)]

\* ------------------------------------------------------------------ C22
\* C22: an edit_role save is rejected as a tier duplicate only if another
\* role of the same guild holds the same non-zero slot: a save with tier_level
\* 0 is accepted whatever the other roles hold, and a save of a slot that no
\* other role of the guild holds (the role's own slot, or a slot held in
\* another guild only) is accepted and stored.
C22_RejectedOnlyForSameGuildDuplicate ==
    last.op = "edit_role" =>
        LET held == OtherHolders(last.id, roles[last.id].guild, last.args[1], last.args[2])
        IN  /\ last.result = "IntegrityError" => (last.args[1] > 0 /\ held # {})
            /\ last.args[1] = 0 => last.result = "ok"
            /\ held = {} =>
                  /\ last.result = "ok"
                  /\ <<roles[last.id].tier_level, roles[last.id].tier_power>> = last.args

\* C22 witness: a save of a non-zero slot was accepted while a role of
\* another guild holds the same slot.
C22_Witness ==
    /\ last.op = "edit_role"
    /\ last.result = "ok"
    /\ last.args[1] > 0
    /\ \E o \in DOMAIN roles :
           /\ roles[o].guild # roles[last.id].guild
           /\ <<roles[o].tier_level, roles[o].tier_power>> = last.args

\* ------------------------------------------------------------------ C23
\* C23: a save of a stored PacketRole with a valid duration, in a packet that
\* holds exactly 20 roles, is accepted and leaves the packet with 20 roles and
\* the row with the new duration.
C23_ResaveInFullPacketAccepted ==
    (last.op = "packet_role_save" /\ LastCountBefore = MaximumRoles /\ LastDuration.value >= 0) =>
        /\ last.result = "ok"
        /\ Cardinality(PacketRolesOf(LastPacket)) = MaximumRoles
        /\ \A row \in PacketRolesOf(LastPacket) :
               row.role = last.id => row.duration = LastDuration.value

\* ------------------------------------------------------------------ C24
\* C24: after setup_diagnostics(channel) has completed, the guild's stored
\* diagnostic_channel_id is the id of that channel, and a toggle_diagnostics
\* that follows resolves that channel.
C24_SetupDiagnosticsStoresChannel ==
    /\ last.op = "setup_diagnostics" =>
           /\ last.result = "ok"
           /\ guildChannels[last.id].diagnostic_channel_id = last.args[1]
    /\ last.op = "toggle_diagnostics" => last.args[1] = guildChannels[last.id].diagnostic_channel_id

\* ------------------------------------------------------------------ C28
\* C28: after any sequence of set_reminders_channel, disable_reminders_channel
\* and toggle_reminders_channel_ping commands, a guild that pings in the
\* reminders channel has a reminders channel.
C28_PingImpliesRemindersChannel ==
    \A g \in Guilds :
        guildChannels[g].reminders_ping_in_reminders_channel
            => guildChannels[g].reminders_channel_id # 0

\* ------------------------------------------------------------------ C25
TieredRoles == {r \in DOMAIN roles : roles[r].tier_level > 0}

\* C25: show_tier_hierarchy lists exactly the roles with tier_level > 0, one
\* heading per tier_level with the tier_power of each role under it, and
\* replies with the failure message exactly when no role has tier_level > 0.
C25_HierarchyListsTieredRolesByLevel ==
    last.op = "show_tier_hierarchy" =>
        /\ last.result = "failure" <=> TieredRoles = {}
        /\ last.result = "ok" =>
               /\ DOMAIN last.args[1] = {roles[r].tier_level : r \in TieredRoles}
               /\ \A h \in DOMAIN last.args[1] :
                      last.args[1][h] =
                          {<<r, roles[r].tier_power>> : r \in {x \in TieredRoles : roles[x].tier_level = h}}

\* ------------------------------------------------------------------ C29
\* C29: the output of show_packet_data and of show_tier_hierarchy in a guild
\* is the output the command has on the database without the RolePackets,
\* PacketRoles and Roles of the other guilds.
C29_ReadCommandsSeeOwnGuildOnly ==
    /\ last.op = "show_packet_data" =>
           LET alone == PacketData(PacketRolesOfGuild(packetRoles, last.id), last.id, last.args[2])
           IN  last.result = alone.result /\ last.args[1] = alone.message
    /\ last.op = "show_tier_hierarchy" =>
           LET alone == TierHierarchy(RolesOfGuild(roles, last.id))
           IN  last.result = alone.result /\ last.args[1] = alone.message

\* ------------------------------------------------------------------ C26
\* C26: the bot-owner commands cog is loaded in every state; unload with its
\* module name replies with the failure and leaves the loaded extensions as
\* they were, and unload with any other name of a loaded extension unloads it.
C26_OwnerCogNeverUnloaded ==
    /\ ProtectedCog \in extensions
    /\ last.op = "unload" =>
           IF last.id = ProtectedCog
           THEN last.result = "failure" /\ extensions = last.args[1]
           ELSE /\ last.id \notin extensions
                /\ last.id \in last.args[1] => (last.result = "ok" /\ extensions = last.args[1] \ {last.id})

\* C26 witness: unload of the cog's own module was refused after another
\* extension had been unloaded.
C26_Witness ==
    /\ last.op = "unload"
    /\ last.id = ProtectedCog
    /\ last.result = "failure"
    /\ "roles" \notin extensions
    /\ ProtectedCog \in extensions

\* ------------------------------------------------------------------ C27
\* C27: at most one update countdown runs at any time, and an update invoked
\* while the countdown of an earlier update has not finished is rejected,
\* for every interleaving of update and update_done.
C27_AtMostOneCountdown ==
    /\ Cardinality(CountingDown) <= 1
    /\ (last.op = "update" /\ last.result # "ok" /\ last.args[2]) => last.result = "failure"

\* ------------------------------------------------------------------ C30
\* The licenses that refer to ReminderActivations row id.
LicenseOwners(id) ==
    UNION {{<<kind, k>> : k \in {x \in DOMAIN licenses[kind] :
                                    licenses[kind][x].reminder_activations = id}} :
              kind \in LicenseKinds}

\* C30: whenever no regenerate() is running, every stored ReminderActivations
\* row is owned by exactly one guild or exactly one license; a failed
\* License.create or regenerate() leaves no row without an owner.
C30_ReminderRowsOwnedOnce ==
    NoRegenTask =>
        \A id \in DOMAIN reminders :
            Cardinality({g \in Guilds : GuildReminders(g) = id})
                + Cardinality(LicenseOwners(id)) = 1

====
